---- MODULE Spec2Model ----
(***************************************************************************)
(* A model of harness/context_manager.py: TestbedContextManager (grouping  *)
(* of task instances, provisioning of environments, distribution of task   *)
(* sets, teardown) and TaskEnvContextManager (the per-instance lifecycle   *)
(* reset / install / apply patch / run tests).                             *)
(*                                                                         *)
(* Strings the code computes on (repository names, versions, environment   *)
(* names) are sequences of one-character strings, so that replace,         *)
(* startswith and concatenation are computed as the code computes them.    *)
(* Python dicts are association lists <<key, value>> in insertion order.   *)
(***************************************************************************)
EXTENDS Integers, Sequences, FiniteSets, TLC

\* ------------------------------------------------------------------ bounds

\* Longest input list of task instances handed to TestbedContextManager.
MaxInstances == 2

\* Longest input list in the specification of the grouping alone.
MaxGroupedInstances == 3

\* Number of harness runs over the same back-ends (a run, then re-runs).
MaxRuns == 2
MaxNameLen == 3
MaxWorkerCommands == 2

\* ------------------------------------------------------- strings and dicts

\* Python's None.
None == <<"None">>

RECURSIVE ReplaceSlash(_)
\* str.replace("/", "__")
ReplaceSlash(s) ==
    IF s = <<>> THEN <<>>
    ELSE (IF Head(s) = "/" THEN <<"_", "_">> ELSE <<Head(s)>>) \o ReplaceSlash(Tail(s))

\* str.startswith(p)
StartsWith(s, p) == Len(s) >= Len(p) /\ SubSeq(s, 1, Len(p)) = p

\* os.path.join(a, b) for a relative b
PathJoin(a, b) == a \o <<"/">> \o b

\* The keys of a dict, in insertion order.
DictKeys(d) == [i \in 1..Len(d) |-> d[i][1]]

\* key in d
DictHas(d, k) == \E i \in 1..Len(d) : d[i][1] = k

\* d[key]
DictGet(d, k) == d[CHOOSE i \in 1..Len(d) : d[i][1] = k][2]

\* d[key] = value: an existing key keeps its position, a new key is appended.
DictSet(d, k, v) ==
    IF DictHas(d, k)
    THEN [i \in 1..Len(d) |-> IF d[i][1] = k THEN <<k, v>> ELSE d[i]]
    ELSE Append(d, <<k, v>>)

\* del d[key]
DictDel(d, k) == SelectSeq(d, LAMBDA kv : kv[1] # k)

\* The elements of a sequence.
Range(s) == {s[i] : i \in 1..Len(s)}

\* ---------------------------------------------------------------- registry

RepoAB == <<"a", "/", "b">>
RepoCD == <<"c", "/", "d">>
Repos == {RepoAB, RepoCD}

V10 == <<"1", ".", "0">>
V11 == <<"1", ".", "1">>
VCoq == <<"c", "o", "q", ".", "8">>
VDocker == <<"d", "o", "c", "k", "e", "r", "-", "c", "o", "q", ".", "8">>
Versions == {V10, V11, VCoq, VDocker, None}

PrefixCoq == <<"c", "o", "q", ".">>
PrefixDockerCoq == <<"d", "o", "c", "k", "e", "r", "-", "c", "o", "q", ".">>

\* constants.MAP_VERSION_TO_INSTALL: repo -> version -> install specification.
\* One entry per shape of specification that __enter__ and run_install_task
\* distinguish; a key that is absent in the Python dict is absent here.
MAP_VERSION_TO_INSTALL ==
    << <<RepoAB,
         << <<V10, [python |-> "3.9", packages |-> "requirements.txt",
                    pre_install |-> <<"pre1", "pre2">>, install |-> "pip install -e ."]>>,
            <<V11, [python |-> "3.9", packages |-> "numpy",
                    pip_packages |-> "pytest", install |-> "pip install -e ."]>>,
            <<VCoq, [ocaml |-> "4.14", packages |-> "coq", deps_only_packages |-> "coq-lib",
                     pre_install |-> <<"pre1">>]>>,
            <<VDocker, [install |-> "make"]>> >> >>,
       <<RepoCD,
         << <<V10, [python |-> "3.9", packages |-> "environment.yml", no_use_env |-> TRUE]>>,
            <<V11, [python |-> "3.9", packages |-> "environment.yml",
                    install |-> "pip install -e ."]>>,
            <<VDocker, [install |-> "make"]>> >> >> >>

\* constants.MAP_REPO_TO_INSTALL: repo -> repository-level install command.
MAP_REPO_TO_INSTALL == << <<RepoAB, "repo-level install">> >>

\* ----------------------------------------------------- TestbedContextManager

\* The task instances an input list may hold at position i.
InstancesAt(i, createdAts) ==
    [instance_id : {i}, repo : Repos, version : Versions, created_at : createdAts]

RECURSIVE SortedDescFrom(_, _)
\* sorted(task_instances, key=created_at, reverse=True): stable, so instances of
\* equal created_at keep their input order. acc is sorted; s is still to insert.
SortedDescFrom(acc, s) ==
    IF s = <<>> THEN acc
    ELSE LET x == Head(s)
             k == Cardinality({i \in 1..Len(acc) : acc[i].created_at >= x.created_at})
         IN SortedDescFrom(SubSeq(acc, 1, k) \o <<x>> \o SubSeq(acc, k + 1, Len(acc)),
                           Tail(s))

\* SortedDesc by a sort that is not stable: instances of equal created_at come
\* out in the reverse of their input order.
SortedDesc_TiesReversed(s) ==
    SortedDescFrom(<<>>, [i \in 1..Len(s) |-> s[Len(s) + 1 - i]])

SortedDesc(s) == SortedDescFrom(<<>>, s)

\* GroupOne with the list of a group replaced instead of appended to.
GroupOne_Overwrite(grouped, instance) ==
    LET repo == instance.repo
        byVersion == IF DictHas(grouped, repo) THEN DictGet(grouped, repo) ELSE <<>>
    IN DictSet(grouped, repo, DictSet(byVersion, instance.version, <<instance>>))

\* One iteration of the grouping loop: append the instance to grouped[repo][version].
GroupOne(grouped, instance) ==
    LET repo == instance.repo
        version == instance.version
        g1 == IF DictHas(grouped, repo) THEN grouped ELSE DictSet(grouped, repo, <<>>)
        byVersion == DictGet(g1, repo)
        bv1 == IF DictHas(byVersion, version) THEN byVersion
               ELSE DictSet(byVersion, version, <<>>)
    IN DictSet(g1, repo, DictSet(bv1, version, Append(DictGet(bv1, version), instance)))

RECURSIVE GroupFrom(_, _)
GroupFrom(grouped, s) ==
    IF s = <<>> THEN grouped ELSE GroupFrom(GroupOne(grouped, Head(s)), Tail(s))

\* task_instances_grouped as built by the loop over the sorted instances.
GroupInstances(sorted) == GroupFrom(<<>>, sorted)

\* SetupRefs taking the last instance of each list, instances[-1].
SetupRefs_LastInstance(grouped) ==
    [i \in 1..Len(grouped) |->
        <<grouped[i][1],
          [j \in 1..Len(grouped[i][2]) |->
              <<grouped[i][2][j][1],
                grouped[i][2][j][2][Len(grouped[i][2][j][2])]>>]>>]

\* setup_refs[repo][version] = instances[0]
SetupRefs(grouped) ==
    [i \in 1..Len(grouped) |->
        <<grouped[i][1],
          [j \in 1..Len(grouped[i][2]) |->
              <<grouped[i][2][j][1], grouped[i][2][j][2][1]>>]>>]

\* CustomRestraints without the test against MAP_VERSION_TO_INSTALL.
CustomRestraints_NoneOnly(grouped) ==
    [i \in 1..Len(grouped) |-> <<grouped[i][1], DictDel(grouped[i][2], None)>>]

\* _custom_restraints: per repo, delete the None version, then every version
\* that has no entry in MAP_VERSION_TO_INSTALL[repo].
CustomRestraints(grouped) ==
    [i \in 1..Len(grouped) |->
        <<grouped[i][1],
          LET noNone == DictDel(grouped[i][2], None)
              specs == DictGet(MAP_VERSION_TO_INSTALL, grouped[i][1])
          IN SelectSeq(noNone, LAMBDA kv : DictHas(specs, kv[1]))>>]

\* f"{repo_prefix}__{version}"
EnvName(repo, version) == ReplaceSlash(repo) \o <<"_", "_">> \o version

VARIABLES
    input,                   \* the task_instances argument of __init__
    path_conda_given,        \* whether path_conda / path_opam / testbed were supplied
    path_opam_given,
    testbed_given,
    tb_pc,                   \* "new", "constructed", "entered", "raised", "exited"
    run,                     \* number of the current harness run
    task_instances,          \* self.task_instances
    task_instances_grouped,  \* self.task_instances_grouped
    setup_refs,              \* self.setup_refs
    todo,                    \* iterations of the __enter__ loops still to run
    tb,                      \* the other attributes and locals of the testbed object
    world,                   \* what exists outside the process: environments, files
    cmds,                    \* the commands self.exec has run in this run, in order
    distributed              \* the last result of get_distributed_tasks

tbVars == <<input, path_conda_given, path_opam_given, testbed_given, tb_pc, run,
            task_instances, task_instances_grouped, setup_refs, todo, tb, world,
            cmds, distributed>>

VARIABLES
    instance,      \* the task instance of the context
    is_eval,       \* the is_eval argument
    timeout_set,   \* whether a timeout was configured (self.timeout is not None)
    te_pc,         \* "constructed", "entered", "raising", "exited", "enter_failed"
    te_cwd,        \* self.cwd
    process_cwd,   \* the working directory of the process
    log_file,      \* the records in the instance's log file
    patch_files,   \* the temporary patch files that exist
    tree,          \* the working tree: the patch kinds applied on top of the reset state
    last,          \* the last stage call: its arguments, outcome and result
    calls          \* stage calls made so far

taskVars == <<instance, is_eval, timeout_set, te_pc, te_cwd, process_cwd, log_file,
              patch_files, tree, last, calls>>

VARIABLES
    name_groups,   \* the (repo, version) keys of two groups of a run
    names          \* the env_name and repo_path __enter__ derives for each

nameVars == <<name_groups, names>>

VARIABLES
    par_mode,       \* how two workers run: "processes" or "threads" of one process
    par_pc,         \* each worker's context: "none", "constructed", "entered", "exited"
    par_self_cwd,   \* each worker's context's self.cwd
    par_cwd,        \* the working directory of the process each worker runs in
    par_ran         \* the stage commands run: by which worker, in which directory

workerVars == <<par_mode, par_pc, par_self_cwd, par_cwd, par_ran>>

VARIABLES
    pat_task,      \* each concurrent apply_patch call: instance, model, patch_type
    pat_pc,        \* its position: "none", "called", "written", "applied", "returned", "raised"
    pat_files,     \* the patch files in the parent of the checkouts: path and writer
    pat_applied,   \* whose patch text each call's git apply read
    pat_touched    \* the paths each call wrote, applied or removed

patcherVars == <<pat_task, pat_pc, pat_files, pat_applied, pat_touched>>

vars == <<tbVars, taskVars, nameVars, workerVars, patcherVars>>

\* The attributes __init__ sets besides the grouping, and the locals __enter__
\* initialises (lines 312-319). path_opam_root is an attribute only once
\* __setup_opam has bootstrapped opam (line 261).
NewTestbed(condaGiven, opamGiven, workGiven) ==
    [ temp_dir_conda      |-> ~condaGiven,
      temp_dir_opam       |-> ~opamGiven,
      path_conda          |-> IF condaGiven THEN <<"conda">> ELSE <<"tmp_conda">>,
      path_opam           |-> IF opamGiven THEN <<"opam">> ELSE <<"tmp_opam">>,
      temp_dir_work       |-> ~workGiven,
      testbed             |-> IF workGiven THEN <<"w">> ELSE <<"t">>,
      has_path_opam_root  |-> FALSE,
      path_opam_is_binary |-> opamGiven,
      has_set_up_conda    |-> FALSE,
      has_set_up_opam     |-> FALSE,
      exec_cmd            |-> None,
      opam_exec_cmd       |-> None,
      env_list            |-> {},    \* meaningful once has_set_up_conda
      switch_list         |-> {},    \* meaningful once has_set_up_opam
      has_container_list  |-> FALSE, \* container_list is not None
      container_list      |-> {},
      docker_container_name |-> None,
      raised              |-> FALSE ]

\* Nothing exists yet: no environment, switch, container, checkout or file.
EmptyWorld ==
    [ conda_envs    |-> {},   \* names `conda env list` shows
      conda_built   |-> {},   \* those whose whole recipe has run
      switches      |-> {},
      switches_built |-> {},
      containers    |-> {},
      checkouts     |-> {},   \* directories under the working root
      gen_files     |-> {},   \* generated requirements / manifest files
      temp_dirs     |-> {},   \* TemporaryDirectory objects not yet cleaned up
      conda_bootstraps |-> 0, \* installs of Miniconda in this run
      opam_bootstraps  |-> 0 ]

\* ----------------------------------------------------------- ExecWrapper

\* What a command can do: exit with status zero, exit with another status, run
\* past the timeout it was given, or fail to run at all (subprocess.run raises
\* something else than CalledProcessError and TimeoutExpired, an OSError say).
Outcomes(hasTimeout) ==
    {"exit0", "exitN", "error"} \cup (IF hasTimeout THEN {"timeout"} ELSE {})

ExecOutput(returncode) == [kind |-> "output", returncode |-> returncode, exc |-> "none"]
ExecNone == [kind |-> "none", returncode |-> 0, exc |-> "none"]
ExecRaise(exc) == [kind |-> "raise", returncode |-> 0, exc |-> exc]

\* ExecWrapper.__call__ (lines 49-60) on a command with the given outcome:
\* subprocess.run raises CalledProcessError on a non-zero exit when check is set;
\* the wrapper re-raises it when raise_error is set and else falls off its end,
\* returning None; it catches nothing else.
ExecCall(outcome, check, raise_error) ==
    CASE outcome = "exit0" -> ExecOutput(0)
      [] outcome = "exitN" ->
            IF check THEN (IF raise_error THEN ExecRaise("CalledProcessError") ELSE ExecNone)
            ELSE ExecOutput(1)
      [] outcome = "timeout" -> ExecRaise("TimeoutExpired")
      [] OTHER -> ExecRaise("OSError")

\* ------------------------------------------------------------ provisioning

\* The back-end __enter__ selects for a version (lines 354, 361, 373).
Kind(version) ==
    IF StartsWith(version, PrefixCoq) THEN "opam"
    ELSE IF StartsWith(version, PrefixDockerCoq) THEN "docker"
    ELSE "conda"

\* One step of __enter__ or __exit__: a command run through self.exec, or a
\* statement of the method that changes state.
Op(name, env) == [op |-> name, env |-> env]

\* The steps that run an external command through self.exec (ExecWrapper with
\* check=True and raise_error=True: a non-zero exit raises CalledProcessError).
CommandOps ==
    {"repo_install", "wget_conda", "install_conda", "wget_opam", "install_opam",
     "install_opam_again", "opam_init", "conda_create", "pip_install_reqs",
     "conda_create_forge", "conda_env_update", "conda_env_create", "switch_create",
     "opam_install", "opam_install_deps", "docker_rm", "docker_run",
     "conda_create_pkgs", "pip_install_extra", "docker_stop", "docker_rm_exit"}

\* The commands that create or install into an environment.
CreationOps ==
    {"conda_create", "pip_install_reqs", "conda_create_forge", "conda_env_update",
     "conda_env_create", "switch_create", "opam_install", "opam_install_deps",
     "docker_rm", "docker_run", "conda_create_pkgs", "pip_install_extra"}

\* Steps that raise whatever the environment does:
\*  - line 301 reads self.path_opam_root, an attribute only line 261 sets;
\*  - line 259 downloads to os.path.join(self.path_opam, ...) after line 276 has
\*    made self.path_opam the opam binary, a file;
\*  - line 476 runs cmd.split(" ") without a shell: the program is ".".
MustRaise(st, op) ==
    \/ op.op = "opam_memo_root" /\ ~st.tb.has_path_opam_root
    \/ op.op = "wget_opam" /\ st.tb.path_opam_is_binary
    \/ op.op = "pip_install_extra"

\* __setup_conda (lines 181-240)
SetupCondaOps(t, env) ==
    (IF t.temp_dir_conda
     THEN <<Op("mkdir_conda", env), Op("wget_conda", env), Op("install_conda", env),
            Op("rm_conda_installer", env)>>
     ELSE <<>>)
    \o (IF ~t.has_set_up_conda THEN <<Op("conda_memo", env)>> ELSE <<>>)

\* __setup_opam (lines 243-306)
SetupOpamOps(t, env) ==
    (IF t.temp_dir_opam
     THEN <<Op("wget_opam", env), Op("mkdir_opam_root", env), Op("install_opam", env),
            Op("install_opam_again", env), Op("copy_opam_binary", env),
            Op("opam_init", env), Op("rm_opam_installer", env)>>
     ELSE <<>>)
    \o (IF ~t.has_set_up_opam
        THEN <<Op("opam_memo_flag", env), Op("opam_memo_root", env),
               Op("opam_memo_list", env)>>
        ELSE <<>>)

\* The list __enter__ tests env_name against (lines 356, 364, 375): the memoized
\* one, or the one the back-end gives when it is first asked.
ListedNames(t, w, kind) ==
    CASE kind = "opam"   -> IF t.has_set_up_opam THEN t.switch_list ELSE w.switches
      [] kind = "docker" -> IF t.has_container_list THEN t.container_list ELSE w.containers
      [] OTHER           -> IF t.has_set_up_conda THEN t.env_list ELSE w.conda_envs

\* Lines 353-379: set up the back-end, then test whether the environment exists.
ExistenceOps(t, w, env, kind) ==
    CASE kind = "opam"   -> SetupOpamOps(t, env)
      [] kind = "docker" ->
            <<Op("set_docker_name", env)>>
            \o (IF ~t.has_container_list THEN <<Op("list_containers", env)>> ELSE <<>>)
            \o (IF env \in ListedNames(t, w, kind) THEN <<Op("docker_rm", env)>> ELSE <<>>)
      [] OTHER           -> SetupCondaOps(t, env)

\* SkipsRecipe with no existence check: the recipe always runs.
SkipsRecipe_Never(t, w, env, kind) == FALSE

\* Lines 356-360 and 375-379: continue, leaving the recipe out.
\* SkipsRecipe taking every environment for an existing one.
SkipsRecipe_Always(t, w, env, kind) == TRUE

SkipsRecipe(t, w, env, kind) ==
    kind \in {"opam", "conda"} /\ env \in ListedNames(t, w, kind)

\* Lines 381-476: the recipe of one environment.
RecipeOps(install, env, kind) ==
    LET pkgs == IF "packages" \in DOMAIN install THEN install.packages ELSE ""
    IN (CASE pkgs = "requirements.txt" ->
                <<Op("conda_create", env), Op("write_reqs", env),
                  Op("pip_install_reqs", env), Op("remove_reqs", env)>>
          [] pkgs = "environment.yml" ->
                <<Op("write_yml", env)>>
                \o (IF "no_use_env" \in DOMAIN install /\ install.no_use_env
                    THEN <<Op("conda_create_forge", env), Op("conda_env_update", env)>>
                    ELSE <<Op("conda_env_create", env)>>)
                \o <<Op("remove_yml", env)>>
          [] pkgs \notin {"requirements.txt", "environment.yml"} /\ kind = "opam" ->
                <<Op("switch_create", env)>>
                \o (IF install.packages # "" THEN <<Op("opam_install", env)>> ELSE <<>>)
                \o (IF install.deps_only_packages # ""
                    THEN <<Op("opam_install_deps", env)>> ELSE <<>>)
          [] pkgs \notin {"requirements.txt", "environment.yml"} /\ kind = "docker" ->
                <<Op("set_docker_name", env), Op("docker_run", env)>>
          [] OTHER -> <<Op("conda_create_pkgs", env)>>)
       \o (IF "pip_packages" \in DOMAIN install
           THEN <<Op("pip_install_extra", env)>> ELSE <<>>)
       \o <<Op("recipe_done", env)>>

\* One iteration of the inner loop of __enter__ (lines 339-476) for a version
\* that has a setup reference.
GroupOps(t, w, repo, version) ==
    LET env == EnvName(repo, version)
        kind == Kind(version)
        install == DictGet(DictGet(MAP_VERSION_TO_INSTALL, repo), version)
    IN (IF env \in w.checkouts THEN <<>> ELSE <<Op("clone", env)>>)
       \o ExistenceOps(t, w, env, kind)
       \o (IF SkipsRecipe(t, w, env, kind) THEN <<>> ELSE RecipeOps(install, env, kind))

\* What a step does when it succeeds. s is [tb, world, cmds].
ApplyOp(s, op) ==
    LET t == s.tb
        w == s.world
        e == op.env
        o == op.op
        t2 == CASE o = "mkdir_conda" -> [t EXCEPT !.path_conda = Append(@, "miniconda3")]
                [] o = "conda_memo" ->
                      [t EXCEPT !.has_set_up_conda = TRUE,
                                !.exec_cmd = t.path_conda \o <<"bin", "conda">>,
                                !.env_list = w.conda_envs]
                [] o = "mkdir_opam_root" ->
                      [t EXCEPT !.has_path_opam_root = TRUE,
                                !.path_opam = Append(@, "bin")]
                [] o = "copy_opam_binary" ->
                      [t EXCEPT !.path_opam = Append(@, "opam"),
                                !.path_opam_is_binary = TRUE]
                [] o = "opam_memo_flag" -> [t EXCEPT !.has_set_up_opam = TRUE]
                [] o = "opam_memo_list" ->
                      [t EXCEPT !.opam_exec_cmd = t.path_opam,
                                !.switch_list = w.switches]
                [] o = "set_docker_name" -> [t EXCEPT !.docker_container_name = e]
                [] o = "list_containers" ->
                      [t EXCEPT !.has_container_list = TRUE,
                                !.container_list = w.containers]
                [] OTHER -> t
        w2 == CASE o = "clone" -> [w EXCEPT !.checkouts = @ \cup {e}]
                [] o = "install_conda" -> [w EXCEPT !.conda_bootstraps = @ + 1]
                [] o = "opam_init" -> [w EXCEPT !.opam_bootstraps = @ + 1]
                [] o \in {"conda_create", "conda_create_forge", "conda_env_create",
                          "conda_create_pkgs"} ->
                      [w EXCEPT !.conda_envs = @ \cup {e}]
                [] o = "switch_create" -> [w EXCEPT !.switches = @ \cup {e}]
                [] o = "docker_run" -> [w EXCEPT !.containers = @ \cup {e}]
                [] o \in {"docker_rm", "docker_rm_exit"} ->
                      [w EXCEPT !.containers = @ \ {e}]
                [] o \in {"write_reqs", "write_yml"} -> [w EXCEPT !.gen_files = @ \cup {e}]
                [] o \in {"remove_reqs", "remove_yml"} -> [w EXCEPT !.gen_files = @ \ {e}]
                [] o = "recipe_done" ->
                      [w EXCEPT !.conda_built = @ \cup ({e} \cap w.conda_envs),
                                !.switches_built = @ \cup ({e} \cap w.switches)]
                [] o = "cleanup_work" ->
                      [w EXCEPT !.checkouts = {}, !.gen_files = {},
                                !.temp_dirs = @ \ {"work"}]
                [] o = "cleanup_conda" ->
                      [w EXCEPT !.conda_envs = {}, !.conda_built = {},
                                !.temp_dirs = @ \ {"conda"}]
                [] OTHER -> w
    IN [tb |-> t2, world |-> w2,
        cmds |-> IF o \in CommandOps
                 THEN Append(s.cmds, [op |-> o, env |-> e, ok |-> TRUE])
                 ELSE s.cmds]

\* The step raises: a command that ran and failed is recorded, nothing else changes
\* but the exception leaving the method.
RaiseAt(s, op) ==
    [tb |-> [s.tb EXCEPT !.raised = TRUE],
     world |-> s.world,
     cmds |-> IF op.op \in CommandOps
              THEN Append(s.cmds, [op |-> op.op, env |-> op.env, ok |-> FALSE])
              ELSE s.cmds]

\* A command that failed without the wrapper raising: it ran, and changed nothing.
FailedOp(s, op) ==
    [s EXCEPT !.cmds = Append(@, [op |-> op.op, env |-> op.env, ok |-> FALSE])]

\* The testbed's ExecWrapper without check: a non-zero exit is returned, not raised.
TestbedExecCheck_Off == FALSE

\* subprocess_args["check"] of the testbed's ExecWrapper (line 96)
TestbedExecCheck == TRUE

RECURSIVE RunOps(_, _, _)
\* Run the steps in order; the failAt-th (0: none) is a command that exits
\* non-zero. The first step that raises ends the method: ExecWrapper re-raises
\* (lines 54-60) and nothing in __enter__ or __exit__ catches.
RunOps(s, ops, failAt) ==
    IF ops = <<>> THEN s
    ELSE IF \/ MustRaise(s, Head(ops))
            \/ failAt = 1 /\ ExecCall("exitN", TestbedExecCheck, TRUE).kind = "raise"
         THEN RaiseAt(s, Head(ops))
         ELSE RunOps(IF failAt = 1 THEN FailedOp(s, Head(ops)) ELSE ApplyOp(s, Head(ops)),
                     Tail(ops), IF failAt = 0 THEN 0 ELSE failAt - 1)

\* The positions at which a list of steps may fail: none (0), or at a command.
FailPoints(ops) == {0} \cup {i \in 1..Len(ops) : ops[i].op \in CommandOps}

RECURSIVE Flatten(_)
Flatten(ss) == IF ss = <<>> THEN <<>> ELSE Head(ss) \o Flatten(Tail(ss))

\* The iterations of __enter__'s loops, in order (lines 322-337): per repository
\* of setup_refs its install command if MAP_REPO_TO_INSTALL has one, then the
\* versions of MAP_VERSION_TO_INSTALL[repo] that have a setup reference.
EnterItems(refs) ==
    Flatten([i \in 1..Len(refs) |->
        LET repo == refs[i][1]
            versions == DictKeys(DictGet(MAP_VERSION_TO_INSTALL, repo))
        IN (IF DictHas(MAP_REPO_TO_INSTALL, repo)
            THEN <<[item |-> "repo", repo |-> repo, version |-> None]>> ELSE <<>>)
           \o [j \in 1..Len(SelectSeq(versions, LAMBDA v : DictHas(refs[i][2], v))) |->
                 [item |-> "group", repo |-> repo,
                  version |-> SelectSeq(versions, LAMBDA v : DictHas(refs[i][2], v))[j]]]])

\* The steps of one iteration.
ItemOps(t, w, it) ==
    IF it.item = "repo" THEN <<Op("repo_install", ReplaceSlash(it.repo))>>
    ELSE GroupOps(t, w, it.repo, it.version)

\* __exit__ (lines 526-537)
ExitOps(t) ==
    (IF t.temp_dir_work THEN <<Op("cleanup_work", None)>> ELSE <<>>)
    \o (IF t.temp_dir_conda THEN <<Op("cleanup_conda", None)>> ELSE <<>>)
    \o (IF t.docker_container_name # None
        THEN <<Op("docker_stop", t.docker_container_name),
               Op("docker_rm_exit", t.docker_container_name)>>
        ELSE <<>>)

\* get_distributed_tasks (lines 480-508): one task set per repo and version of
\* task_instances_grouped. Line 496 reads self.path_opam_root.
\* TaskSets handing each group's first instance alone to the worker.
TaskSets_SetupRefOnly(t, grouped) ==
    Flatten([i \in 1..Len(grouped) |->
        [j \in 1..Len(grouped[i][2]) |->
            LET env_name == EnvName(grouped[i][1], grouped[i][2][j][1])
            IN [conda_path |-> t.path_conda, opam_path |-> t.path_opam,
                task_instances |-> <<Head(grouped[i][2][j][2])>>,
                testbed |-> PathJoin(t.testbed, env_name),
                venv |-> env_name, switch |-> env_name, container |-> env_name,
                version |-> grouped[i][2][j][1]]]])

TaskSets(t, grouped) ==
    Flatten([i \in 1..Len(grouped) |->
        [j \in 1..Len(grouped[i][2]) |->
            LET env_name == EnvName(grouped[i][1], grouped[i][2][j][1])
            IN [conda_path |-> t.path_conda, opam_path |-> t.path_opam,
                task_instances |-> grouped[i][2][j][2],
                testbed |-> PathJoin(t.testbed, env_name),
                venv |-> env_name, switch |-> env_name, container |-> env_name,
                version |-> grouped[i][2][j][1]]]])

GetDistributedTasksResult(t, grouped) ==
    IF TaskSets(t, grouped) # <<>> /\ ~t.has_path_opam_root
    THEN [raised |-> TRUE, tasks |-> <<>>]
    ELSE [raised |-> FALSE, tasks |-> TaskSets(t, grouped)]

\* --------------------------------------------------- the testbed's actions

CreatedAts == {1, 2}

RECURSIVE Inputs(_)
\* The input lists of n task instances; the instance at position i has id i.
Inputs(n) ==
    IF n = 0 THEN {<<>>}
    ELSE {Append(s, x) : s \in Inputs(n - 1), x \in InstancesAt(n, CreatedAts)}

NoTasks == [raised |-> FALSE, tasks |-> <<>>]

\* The state before __init__, for an input list and a choice of supplied paths.
TestbedInitFrom(inputs, given) ==
    /\ input \in inputs
    /\ path_conda_given \in given
    /\ path_opam_given \in given
    /\ testbed_given \in given
    /\ tb_pc = "new"
    /\ run = 1
    /\ task_instances = <<>>
    /\ task_instances_grouped = <<>>
    /\ setup_refs = <<>>
    /\ todo = <<>>
    /\ tb = NewTestbed(path_conda_given, path_opam_given, testbed_given)
    /\ world = EmptyWorld
    /\ cmds = <<>>
    /\ distributed = NoTasks

\* TestbedContextManager.__init__ (lines 64-179)
Construct ==
    /\ tb_pc = "new"
    /\ tb_pc' = "constructed"
    /\ tb' = NewTestbed(path_conda_given, path_opam_given, testbed_given)
    /\ world' = [world EXCEPT !.temp_dirs =
                    {d \in {"conda", "opam", "work"} :
                        \/ d = "conda" /\ ~path_conda_given
                        \/ d = "opam" /\ ~path_opam_given
                        \/ d = "work" /\ ~testbed_given}]
    /\ task_instances' = SortedDesc(input)
    /\ setup_refs' = SetupRefs(GroupInstances(task_instances'))
    /\ task_instances_grouped' = CustomRestraints(GroupInstances(task_instances'))
    /\ UNCHANGED taskVars
    /\ UNCHANGED nameVars
    /\ UNCHANGED workerVars
    /\ UNCHANGED patcherVars
    /\ UNCHANGED <<input, path_conda_given, path_opam_given, testbed_given, run, todo,
                   cmds, distributed>>

\* __enter__ up to its loops (lines 312-322)
Enter ==
    /\ tb_pc = "constructed"
    /\ todo' = EnterItems(setup_refs)
    /\ tb_pc' = IF todo' = <<>> THEN "entered" ELSE "entering"
    /\ UNCHANGED taskVars
    /\ UNCHANGED nameVars
    /\ UNCHANGED workerVars
    /\ UNCHANGED patcherVars
    /\ UNCHANGED <<input, path_conda_given, path_opam_given, testbed_given, run,
                   task_instances, task_instances_grouped, setup_refs, tb, world, cmds,
                   distributed>>

\* One iteration of __enter__'s loops; after the last one __enter__ returns.
EnterStep ==
    /\ tb_pc = "entering"
    /\ todo # <<>>
    /\ LET ops == ItemOps(tb, world, Head(todo))
       IN \E failAt \in FailPoints(ops) :
            LET s == RunOps([tb |-> tb, world |-> world, cmds |-> cmds], ops, failAt)
            IN /\ tb' = s.tb
               /\ world' = s.world
               /\ cmds' = s.cmds
               /\ todo' = Tail(todo)
               /\ tb_pc' = IF s.tb.raised THEN "raised"
                           ELSE IF todo' = <<>> THEN "entered" ELSE "entering"
    /\ UNCHANGED taskVars
    /\ UNCHANGED nameVars
    /\ UNCHANGED workerVars
    /\ UNCHANGED patcherVars
    /\ UNCHANGED <<input, path_conda_given, path_opam_given, testbed_given, run,
                   task_instances, task_instances_grouped, setup_refs, distributed>>

\* get_distributed_tasks, called on the constructed or entered testbed
GetDistributedTasks ==
    /\ tb_pc \in {"constructed", "entered"}
    /\ distributed' = GetDistributedTasksResult(tb, task_instances_grouped)
    /\ distributed' # distributed
    /\ UNCHANGED taskVars
    /\ UNCHANGED nameVars
    /\ UNCHANGED workerVars
    /\ UNCHANGED patcherVars
    /\ UNCHANGED <<input, path_conda_given, path_opam_given, testbed_given, tb_pc, run,
                   task_instances, task_instances_grouped, setup_refs, todo, tb, world,
                   cmds>>

\* __exit__, which the with statement calls once __enter__ has returned
Exit ==
    /\ tb_pc = "entered"
    /\ LET ops == ExitOps(tb)
       IN \E failAt \in FailPoints(ops) :
            LET s == RunOps([tb |-> tb, world |-> world, cmds |-> cmds], ops, failAt)
            IN /\ tb' = s.tb
               /\ world' = s.world
               /\ cmds' = s.cmds
               /\ tb_pc' = IF s.tb.raised THEN "raised" ELSE "exited"
    /\ UNCHANGED taskVars
    /\ UNCHANGED nameVars
    /\ UNCHANGED workerVars
    /\ UNCHANGED patcherVars
    /\ UNCHANGED <<input, path_conda_given, path_opam_given, testbed_given, run,
                   task_instances, task_instances_grouped, setup_refs, todo, distributed>>

\* The harness is run again on the same arguments. The process of the run
\* before has ended, and with it every TemporaryDirectory it still held; what
\* lives in supplied paths and in the container runtime stays.
Rerun ==
    /\ tb_pc \in {"raised", "exited"}
    /\ run < MaxRuns
    /\ run' = run + 1
    /\ tb_pc' = "new"
    /\ world' = [world EXCEPT
                    !.temp_dirs = {},
                    !.conda_envs = IF path_conda_given THEN @ ELSE {},
                    !.conda_built = IF path_conda_given THEN @ ELSE {},
                    !.switches = IF path_opam_given THEN @ ELSE {},
                    !.switches_built = IF path_opam_given THEN @ ELSE {},
                    !.checkouts = IF testbed_given THEN @ ELSE {},
                    !.gen_files = IF testbed_given THEN @ ELSE {},
                    !.conda_bootstraps = 0,
                    !.opam_bootstraps = 0]
    /\ tb' = NewTestbed(path_conda_given, path_opam_given, testbed_given)
    /\ cmds' = <<>>
    /\ todo' = <<>>
    /\ distributed' = NoTasks
    /\ task_instances' = <<>>
    /\ task_instances_grouped' = <<>>
    /\ setup_refs' = <<>>
    /\ UNCHANGED taskVars
    /\ UNCHANGED nameVars
    /\ UNCHANGED workerVars
    /\ UNCHANGED patcherVars
    /\ UNCHANGED <<input, path_conda_given, path_opam_given, testbed_given>>



\* ----------------------------------------------------- TaskEnvContextManager


\* Stage calls per behaviour.
MaxStageCalls == 2

\* subprocess_args["check"] of the task context's ExecWrapper (line 610)
TaskExecCheck == TRUE

L(token, tag) == [token |-> token, tag |-> tag]

\* The result of a stage: what it returned ("True", "False") or that it raised,
\* the records it appended to the log, the commands it ran with their outcomes,
\* the working tree and temporary patch files it leaves, and the files it wrote.
StageResult(ret, exc, appended, ran, tr, files) ==
    [ret |-> ret, exc |-> exc, appended |-> appended, ran |-> ran, tree |-> tr,
     patch_files |-> files, wrote |-> {}]

\* The outcome of the i-th command of a stage when the failAt-th one (0: none)
\* ends with outcome how and those before it exit with status zero.
OutcomeAt(i, failAt, how) == IF i = failAt THEN how ELSE "exit0"

\* The commands of reset_task_env after the removal of ignored files (lines 649-658)
ResetCmds ==
    <<"git restore .", "git reset HEAD .", "git clean -fdx",
      "git submodule foreach --recursive git clean -fdx",
      "git checkout --recurse-submodules -f base_commit",
      "git submodule update --init --recursive">>

RECURSIVE ResetFrom(_, _, _, _, _, _)
\* Lines 649-668 from the i-th command on: the first command that raises is
\* caught by `except Exception`, which appends RESET_FAILED and returns False.
ResetFrom(i, failAt, how, ran, tr, files) ==
    IF i > Len(ResetCmds) THEN StageResult("True", "none", <<>>, ran, {}, files)
    ELSE LET o == OutcomeAt(i, failAt, how)
             r == ExecCall(o, TaskExecCheck, TRUE)
             ran2 == Append(ran, <<ResetCmds[i], o>>)
         IN IF r.kind = "raise"
            THEN StageResult("False", "none", <<L("RESET_FAILED", "")>>, ran2, tr, files)
            ELSE ResetFrom(i + 1, failAt, how, ran2, tr, files)

\* reset_task_env (lines 631-668). gitignore: whether .gitignore exists; ignored:
\* the outcome of the removal of ignored files, run with raise_error=False.
ResetTaskEnvResult(gitignore, ignored, failAt, how, tr, files) ==
    IF gitignore /\ ExecCall(ignored, TaskExecCheck, FALSE).kind = "raise"
    THEN StageResult("False", "none", <<L("RESET_FAILED", "")>>,
                     <<<<"rm ignored", ignored>>>>, tr, files)
    ELSE ResetFrom(1, failAt, how,
                   IF gitignore THEN <<<<"rm ignored", ignored>>>> ELSE <<>>, tr, files)

RECURSIVE PreInstallFrom(_, _, _, _, _, _, _, _)
\* Lines 684-702 from the i-th pre_install command on, then lines 704-745.
\* The pre_install loop has no try: what self.exec raises leaves the stage.
PreInstallFrom(pre, i, failAt, how, appended, ran, tr, files) ==
    IF i > Len(pre) THEN StageResult("continue", "none", appended, ran, tr, files)
    ELSE LET o == OutcomeAt(i, failAt, how)
             r == ExecCall(o, TaskExecCheck, TRUE)
             ran2 == Append(ran, <<pre[i], o>>)
             app2 == Append(appended, L("PRE_INSTALL_OUTPUT", ""))
         IN CASE r.kind = "raise" -> StageResult("raise", r.exc, appended, ran2, tr, files)
              [] r.kind = "none" ->
                    StageResult("raise", "AttributeError", appended, ran2, tr, files)
              [] r.kind = "output" /\ r.returncode # 0 ->
                    StageResult("False", "none", Append(app2, L("INSTALL_FAIL", "")),
                                ran2, tr, files)
              [] OTHER -> PreInstallFrom(pre, i + 1, failAt, how, app2, ran2, tr, files)

\* InstallCommandResult with the timeout reported as the generic failure.
InstallCommandResult_TimeoutAsFail(specifications, o, appended, ran, tr, files) ==
    LET r == ExecCall(o, TaskExecCheck, TRUE)
        ran2 == Append(ran, <<specifications.install, o>>)
    IN IF r.kind = "output" /\ r.returncode = 0
       THEN StageResult("True", "none",
                        appended \o <<L("INSTALL_OUTPUT", ""), L("INSTALL_PASS", "")>>,
                        ran2, tr, files)
       ELSE StageResult("False", "none", Append(appended, L("INSTALL_FAIL", "")),
                        ran2, tr, files)

\* Lines 708-745: the install command, in a try that catches TimeoutExpired alone.
InstallCommandResult(specifications, o, appended, ran, tr, files) ==
    LET r == ExecCall(o, TaskExecCheck, TRUE)
        ran2 == Append(ran, <<specifications.install, o>>)
        app2 == Append(appended, L("INSTALL_OUTPUT", ""))
    IN CASE r.kind = "raise" /\ r.exc = "TimeoutExpired" ->
                StageResult("False", "none", Append(appended, L("INSTALL_TIMEOUT", "")),
                            ran2, tr, files)
         [] r.kind = "raise" /\ r.exc # "TimeoutExpired" ->
                StageResult("raise", r.exc, appended, ran2, tr, files)
         [] r.kind = "none" ->
                StageResult("raise", "AttributeError", appended, ran2, tr, files)
         [] r.kind = "output" /\ r.returncode # 0 ->
                StageResult("False", "none", Append(app2, L("INSTALL_FAIL", "")),
                            ran2, tr, files)
         [] OTHER ->
                StageResult("True", "none", Append(app2, L("INSTALL_PASS", "")),
                            ran2, tr, files)

\* run_install_task (lines 670-745)
RunInstallTaskResult(inst, failAt, how, tr, files) ==
    LET specifications == DictGet(DictGet(MAP_VERSION_TO_INSTALL, inst.repo), inst.version)
        pre == IF "pre_install" \in DOMAIN specifications
               THEN specifications.pre_install ELSE <<>>
        p == PreInstallFrom(pre, 1, failAt, how, <<>>, <<>>, tr, files)
    IN IF p.ret # "continue" THEN p
       ELSE IF "install" \notin DOMAIN specifications
            THEN StageResult("True", "none", p.appended, p.ran, tr, files)
            ELSE InstallCommandResult(specifications,
                                      OutcomeAt(Len(pre) + 1, failAt, how),
                                      p.appended, p.ran, tr, files)

\* The commands run_install_task may run for an instance.
InstallCmdCount(inst) ==
    LET specifications == DictGet(DictGet(MAP_VERSION_TO_INSTALL, inst.repo), inst.version)
    IN (IF "pre_install" \in DOMAIN specifications
        THEN Len(specifications.pre_install) ELSE 0)
       + (IF "install" \in DOMAIN specifications THEN 1 ELSE 0)

\* f"temp_{instance_id}_{patch_type}.patch" in the parent of the testbed (lines 769-772)
PatchPath(inst, patch_type) == <<"temp", inst.instance_id, patch_type>>

\* ApplyPatchResult without the test for a patch of None: the patch file is
\* written and git apply runs whatever the patch.
ApplyPatchResult_NoNoneTest(inst, patch, patch_type, revert, o, tr, files) ==
    LET path == PatchPath(inst, patch_type)
        r == ExecCall(o, FALSE, FALSE)
        passed == r.kind = "output" /\ r.returncode = 0
    IN [wrote |-> {path}] @@
       StageResult(IF passed THEN "True" ELSE "False", "none",
                   <<L(IF passed THEN "APPLY_PATCH_PASS" ELSE "APPLY_PATCH_FAIL",
                       patch_type)>>,
                   <<<<IF revert THEN "git apply -v -R" ELSE "git apply -v", o>>>>,
                   IF ~passed THEN tr
                   ELSE IF revert THEN tr \ {patch_type} ELSE tr \cup {patch_type},
                   files \ {path})

\* apply_patch (lines 747-801). patch is None or the text of a diff.
ApplyPatchResult(inst, patch, patch_type, revert, o, tr, files) ==
    IF patch = None
    THEN StageResult("False", "none", <<L("APPLY_PATCH_FAIL", "")>>, <<>>, tr, files)
    ELSE LET path == PatchPath(inst, patch_type)
             r == ExecCall(o, FALSE, FALSE)
             ran == <<<<IF revert THEN "git apply -v -R" ELSE "git apply -v", o>>>>
         IN [wrote |-> {path}] @@
            CASE r.kind = "raise" ->
                    StageResult("raise", r.exc, <<>>, ran, tr, files \cup {path})
              [] r.kind = "none" ->
                    StageResult("raise", "AttributeError", <<>>, ran, tr, files \ {path})
              [] r.kind = "output" /\ r.returncode # 0 ->
                    StageResult("False", "none", <<L("APPLY_PATCH_FAIL", patch_type)>>,
                                ran, tr, files \ {path})
              [] OTHER ->
                    StageResult("True", "none", <<L("APPLY_PATCH_PASS", patch_type)>>, ran,
                                IF revert THEN tr \ {patch_type} ELSE tr \cup {patch_type},
                                files \ {path})

\* RunTestsTaskResult with the command run under the wrapper's check=True: a
\* non-zero exit raises and is reported as an error of the run.
RunTestsTaskResult_Checked(o, tr, files) ==
    LET r == ExecCall(o, TaskExecCheck, TRUE)
        ran == <<<<"test_cmd", o>>>>
        script == <<L("TEST_SCRIPT", "")>>
    IN CASE r.kind = "raise" /\ r.exc = "TimeoutExpired" ->
                StageResult("False", "none", Append(script, L("TESTS_TIMEOUT", "")),
                            ran, tr, files)
         [] r.kind = "output" /\ r.returncode = 0 ->
                StageResult("True", "none",
                            script \o <<L("TEST_OUTPUT", ""), L("TESTS_PASSED", "")>>,
                            ran, tr, files)
         [] OTHER ->
                StageResult("False", "none", Append(script, L("TESTS_ERROR", "")),
                            ran, tr, files)

\* run_tests_task (lines 803-848): the command runs with check=False.
RunTestsTaskResult(o, tr, files) ==
    LET r == ExecCall(o, FALSE, TRUE)
        ran == <<<<"test_cmd", o>>>>
        script == <<L("TEST_SCRIPT", "")>>
    IN CASE r.kind = "raise" /\ r.exc = "TimeoutExpired" ->
                StageResult("False", "none", Append(script, L("TESTS_TIMEOUT", "")),
                            ran, tr, files)
         [] r.kind = "raise" /\ r.exc # "TimeoutExpired" ->
                StageResult("False", "none", Append(script, L("TESTS_ERROR", "")),
                            ran, tr, files)
         [] r.kind = "none" ->
                StageResult("False", "none", Append(script, L("TESTS_ERROR", "")),
                            ran, tr, files)
         [] r.kind = "output" /\ r.returncode # 0 ->
                StageResult("True", "none",
                            script \o <<L("TEST_OUTPUT", ""), L("TESTS_FAILED", "")>>,
                            ran, tr, files)
         [] OTHER ->
                StageResult("True", "none",
                            script \o <<L("TEST_OUTPUT", ""), L("TESTS_PASSED", "")>>,
                            ran, tr, files)

\* ------------------------------------------------ the task context's actions

\* The directory the harness runs in.
HarnessDir == <<"h">>

\* The text of a patch.
Diff == <<"diff">>

PatchTypes == {"eval", "test"}

\* The task instances a context may be given: those of the groups that
\* _custom_restraints keeps.
TaskInstances ==
    {[instance_id |-> 1, repo |-> r, version |-> v, model |-> "m"] :
        <<r, v>> \in {<<r, v>> \in Repos \X (Versions \ {None}) :
                        DictHas(DictGet(MAP_VERSION_TO_INSTALL, r), v)}}

\* The testbed argument: the checkout of the instance's group.
TaskTestbed(inst) == PathJoin(<<"w">>, EnvName(inst.repo, inst.version))

NoCall == [stage |-> "none", ret |-> "none", exc |-> "none", appended |-> <<>>,
           ran |-> <<>>, wrote |-> {}, tree_before |-> {}, files_before |-> {},
           log_before |-> <<>>, tree_after |-> {}, files_after |-> {},
           log_after |-> <<>>, patch |-> None, patch_type |-> "", revert |-> FALSE]

\* The record of a stage call: what it was given, what it did and what it left.
Call(stage, res, patch, patch_type, revert) ==
    [stage |-> stage, ret |-> res.ret, exc |-> res.exc, appended |-> res.appended,
     ran |-> res.ran, wrote |-> res.wrote, tree_before |-> tree,
     files_before |-> patch_files, log_before |-> log_file,
     tree_after |-> res.tree, files_after |-> res.patch_files,
     log_after |-> log_file \o res.appended,
     patch |-> patch, patch_type |-> patch_type, revert |-> revert]

\* The state after TaskEnvContextManager.__init__ (lines 543-616).
TaskInit ==
    /\ instance \in TaskInstances
    /\ is_eval \in BOOLEAN
    /\ timeout_set \in BOOLEAN
    /\ te_pc = "constructed"
    /\ te_cwd = HarnessDir
    /\ process_cwd = HarnessDir
    /\ log_file = <<>>
    /\ patch_files = {}
    /\ tree = {}
    /\ last = NoCall
    /\ calls = 0

\* No task context exists: the state of the task variables while the testbed runs.
TaskIdle ==
    /\ instance = [instance_id |-> 1, repo |-> RepoAB, version |-> V10, model |-> "m"]
    /\ is_eval = FALSE
    /\ timeout_set = FALSE
    /\ te_pc = "none"
    /\ te_cwd = HarnessDir
    /\ process_cwd = HarnessDir
    /\ log_file = <<>>
    /\ patch_files = {}
    /\ tree = {}
    /\ last = NoCall
    /\ calls = 0

\* __enter__ (lines 618-629): chdir, then open the log file with mode "w" and
\* write the header. logOpens: whether open() succeeds.
TaskEnter ==
    /\ te_pc = "constructed"
    /\ process_cwd' = TaskTestbed(instance)
    /\ \E logOpens \in BOOLEAN :
         IF logOpens
         THEN /\ log_file' = <<L("HEADER", "")>>
                              \o (IF is_eval THEN <<L("HEADER_MODEL", "")>> ELSE <<>>)
              /\ te_pc' = "entered"
         ELSE /\ log_file' = log_file
              /\ te_pc' = "enter_failed"
    /\ UNCHANGED tbVars
    /\ UNCHANGED nameVars
    /\ UNCHANGED workerVars
    /\ UNCHANGED patcherVars
    /\ UNCHANGED <<instance, is_eval, timeout_set, te_cwd, patch_files, tree, last, calls>>

\* What a stage call leaves, whatever the stage.
Finish(stage, res, patch, patch_type, revert) ==
    /\ log_file' = log_file \o res.appended
    /\ tree' = res.tree
    /\ patch_files' = res.patch_files
    /\ last' = Call(stage, res, patch, patch_type, revert)
    /\ te_pc' = IF res.ret = "raise" THEN "raising" ELSE "entered"
    /\ calls' = calls + 1
    /\ UNCHANGED tbVars
    /\ UNCHANGED nameVars
    /\ UNCHANGED workerVars
    /\ UNCHANGED patcherVars
    /\ UNCHANGED <<instance, is_eval, timeout_set, te_cwd, process_cwd>>

CanCall == te_pc = "entered" /\ calls < MaxStageCalls

ResetTaskEnv ==
    /\ CanCall
    /\ \E gitignore \in BOOLEAN, ignored \in Outcomes(timeout_set),
          failAt \in 0..Len(ResetCmds), how \in Outcomes(timeout_set) \ {"exit0"} :
         Finish("reset",
                ResetTaskEnvResult(gitignore, ignored, failAt, how, tree, patch_files),
                None, "", FALSE)

RunInstallTask ==
    /\ CanCall
    /\ \E failAt \in 0..InstallCmdCount(instance),
          how \in Outcomes(timeout_set) \ {"exit0"} :
         Finish("install", RunInstallTaskResult(instance, failAt, how, tree, patch_files),
                None, "", FALSE)

\* git apply can succeed only on a tree the patch applies to.
PatchOutcomes(patch_type, revert) ==
    {o \in Outcomes(FALSE) : o = "exit0" => (revert <=> patch_type \in tree)}

ApplyPatch ==
    /\ CanCall
    /\ \E patch \in {None, Diff}, patch_type \in PatchTypes, revert \in BOOLEAN :
         \E o \in PatchOutcomes(patch_type, revert) :
            Finish("patch",
                   ApplyPatchResult(instance, patch, patch_type, revert, o, tree,
                                    patch_files),
                   patch, patch_type, revert)

RunTestsTask ==
    /\ CanCall
    /\ \E o \in Outcomes(timeout_set) :
         Finish("tests", RunTestsTaskResult(o, tree, patch_files), None, "", FALSE)

\* __exit__ (lines 850-851), called when the with body ends or raises
TaskExit ==
    /\ te_pc \in {"entered", "raising"}
    /\ process_cwd' = te_cwd
    /\ te_pc' = "exited"
    /\ UNCHANGED tbVars
    /\ UNCHANGED nameVars
    /\ UNCHANGED workerVars
    /\ UNCHANGED patcherVars
    /\ UNCHANGED <<instance, is_eval, timeout_set, te_cwd, log_file, patch_files, tree,
                   last, calls>>

\* A new context for the same instance and mode: __init__ stores os.getcwd().
TaskNewContext ==
    /\ te_pc \in {"exited", "enter_failed"}
    /\ calls < MaxStageCalls
    /\ te_cwd' = process_cwd
    /\ te_pc' = "constructed"
    /\ UNCHANGED tbVars
    /\ UNCHANGED nameVars
    /\ UNCHANGED workerVars
    /\ UNCHANGED patcherVars
    /\ UNCHANGED <<instance, is_eval, timeout_set, process_cwd, log_file, patch_files,
                   tree, last, calls>>

TaskNext ==
    \/ TaskEnter \/ ResetTaskEnv \/ RunInstallTask \/ ApplyPatch \/ RunTestsTask
    \/ TaskExit \/ TaskNewContext

\* ---------------------------------------------------- environment names

\* The characters of repository and version strings besides the "/" of a
\* repository: a letter and the underscore.
NameChars == {"a", "_"}

\* The strings of length n over NameChars.
RECURSIVE WordsOfLen(_)
WordsOfLen(n) ==
    IF n = 0 THEN {<<>>}
    ELSE {Append(w, c) : w \in WordsOfLen(n - 1), c \in NameChars}

\* The non-empty strings of up to MaxNameLen characters.
Words == UNION {WordsOfLen(n) : n \in 1..MaxNameLen}

\* Repositories "a/<name>" and versions.
NameRepos == {<<"a", "/">> \o w : w \in Words}
NameVersions == Words

\* No names are being derived: the state of the name variables in the other
\* specifications.
NamesIdle ==
    /\ name_groups = <<>>
    /\ names = <<>>

\* Two groups with distinct (repo, version) keys.
NamesInit ==
    /\ name_groups \in {<<g, h>> : g, h \in [repo : NameRepos, version : NameVersions]}
    /\ name_groups[1] # name_groups[2]
    /\ names = <<>>

\* Lines 322, 340 and 343 of __enter__ (and 489-492 of get_distributed_tasks)
\* for each group: env_name, and the checkout path under the working root.
DeriveNames ==
    /\ names = <<>>
    /\ name_groups # <<>>
    /\ names' = [i \in 1..Len(name_groups) |->
                   LET env_name == EnvName(name_groups[i].repo, name_groups[i].version)
                   IN [env_name |-> env_name, repo_path |-> PathJoin(<<"w">>, env_name)]]
    /\ UNCHANGED name_groups
    /\ UNCHANGED tbVars
    /\ UNCHANGED taskVars
    /\ UNCHANGED workerVars
    /\ UNCHANGED patcherVars

\* ------------------------------------------------------- parallel workers

\* Two workers, each running the task context of a group of its own.
Workers == {1, 2}

\* The testbed argument of each worker's context: its group's checkout.
WorkerTestbed(w) ==
    IF w = 1 THEN PathJoin(<<"w">>, EnvName(RepoAB, V10))
    ELSE PathJoin(<<"w">>, EnvName(RepoCD, V10))

\* No workers run: the state of the worker variables in the other specifications.
WorkersIdle ==
    /\ par_mode = "processes"
    /\ par_pc = [w \in Workers |-> "none"]
    /\ par_self_cwd = [w \in Workers |-> HarnessDir]
    /\ par_cwd = [w \in Workers |-> HarnessDir]
    /\ par_ran = <<>>

\* The workers are about to start, as processes forked in the harness
\* directory or as threads of the harness process.
WorkersInit ==
    /\ par_mode \in {"processes", "threads"}
    /\ par_pc = [w \in Workers |-> "none"]
    /\ par_self_cwd = [w \in Workers |-> HarnessDir]
    /\ par_cwd = [w \in Workers |-> HarnessDir]
    /\ par_ran = <<>>

\* os.chdir(dir) by worker w: the working directory belongs to the process, so
\* threads of one process all see the change.
Chdir(w, dir) ==
    IF par_mode = "threads" THEN [v \in Workers |-> dir]
    ELSE [par_cwd EXCEPT ![w] = dir]

\* TaskEnvContextManager.__init__ in a worker: self.cwd = os.getcwd() (line 602)
WorkerConstruct ==
    /\ \E w \in Workers :
         /\ par_pc[w] = "none"
         /\ par_pc' = [par_pc EXCEPT ![w] = "constructed"]
         /\ par_self_cwd' = [par_self_cwd EXCEPT ![w] = par_cwd[w]]
    /\ UNCHANGED <<par_mode, par_cwd, par_ran>>
    /\ UNCHANGED <<tbVars, taskVars, nameVars, patcherVars>>

\* __enter__ in a worker: os.chdir(self.testbed) (line 622)
WorkerEnter ==
    /\ \E w \in Workers :
         /\ par_pc[w] = "constructed"
         /\ par_pc' = [par_pc EXCEPT ![w] = "entered"]
         /\ par_cwd' = Chdir(w, WorkerTestbed(w))
    /\ UNCHANGED <<par_mode, par_self_cwd, par_ran>>
    /\ UNCHANGED <<tbVars, taskVars, nameVars, patcherVars>>

\* A stage command of a worker's context: self.exec passes no cwd to
\* subprocess.run, so the command runs in the working directory of the process.
WorkerCommand ==
    /\ \E w \in Workers :
         /\ par_pc[w] = "entered"
         /\ Cardinality({i \in 1..Len(par_ran) : par_ran[i].worker = w}) < MaxWorkerCommands
         /\ par_ran' = Append(par_ran, [worker |-> w, cwd |-> par_cwd[w]])
    /\ UNCHANGED <<par_mode, par_pc, par_self_cwd, par_cwd>>
    /\ UNCHANGED <<tbVars, taskVars, nameVars, patcherVars>>

\* __exit__ in a worker: os.chdir(self.cwd) (line 851)
WorkerExit ==
    /\ \E w \in Workers :
         /\ par_pc[w] = "entered"
         /\ par_pc' = [par_pc EXCEPT ![w] = "exited"]
         /\ par_cwd' = Chdir(w, par_self_cwd[w])
    /\ UNCHANGED <<par_mode, par_self_cwd, par_ran>>
    /\ UNCHANGED <<tbVars, taskVars, nameVars, patcherVars>>

\* ------------------------------------------------- concurrent apply_patch

\* Two apply_patch calls of two task executions whose checkouts lie under the
\* same working root.
Patchers == {1, 2}

\* What a task execution is: an instance evaluated for a model, and the
\* patch_type its apply_patch call is given.
PatchTasks ==
    [instance_id : {1, 2}, model : {"m1", "m2"}, patch_type : {"pred", "test"}]

\* No apply_patch call runs: the state of these variables in the other
\* specifications.
PatchersIdle ==
    /\ pat_task = [p \in Patchers |-> [instance_id |-> 1, model |-> "m1", patch_type |-> "pred"]]
    /\ pat_pc = [p \in Patchers |-> "none"]
    /\ pat_files = {}
    /\ pat_applied = [p \in Patchers |-> "none"]
    /\ pat_touched = {}

\* Two calls with a patch that is not None, for different instances or for
\* the same instance evaluated for different models.
PatchersInit ==
    /\ pat_task \in [Patchers -> PatchTasks]
    /\ <<pat_task[1].instance_id, pat_task[1].model>>
         # <<pat_task[2].instance_id, pat_task[2].model>>
    /\ pat_pc = [p \in Patchers |-> "called"]
    /\ pat_files = {}
    /\ pat_applied = [p \in Patchers |-> "none"]
    /\ pat_touched = {}

\* patch_path of a call (lines 769-772)
PatcherPath(p) == PatchPath(pat_task[p], pat_task[p].patch_type)

\* with open(patch_path, "w") as f: f.write(patch) (lines 773-774): creates
\* the file or replaces its content.
PatcherWrite ==
    /\ \E p \in Patchers :
         /\ pat_pc[p] = "called"
         /\ pat_pc' = [pat_pc EXCEPT ![p] = "written"]
         /\ pat_files' = {f \in pat_files : f.path # PatcherPath(p)}
                            \cup {[path |-> PatcherPath(p), writer |-> p]}
         /\ pat_touched' = pat_touched \cup {<<p, PatcherPath(p)>>}
    /\ UNCHANGED <<pat_task, pat_applied>>
    /\ UNCHANGED <<tbVars, taskVars, nameVars, workerVars>>

\* git apply -v patch_path with raise_error=False, check=False (lines 777-780):
\* reads whatever the file holds now; a missing file is a non-zero exit.
PatcherApply ==
    /\ \E p \in Patchers :
         /\ pat_pc[p] = "written"
         /\ pat_pc' = [pat_pc EXCEPT ![p] = "applied"]
         /\ pat_applied' =
              [pat_applied EXCEPT ![p] =
                  IF \E f \in pat_files : f.path = PatcherPath(p)
                  THEN (CHOOSE f \in pat_files : f.path = PatcherPath(p)).writer
                  ELSE "missing"]
         /\ pat_touched' = pat_touched \cup {<<p, PatcherPath(p)>>}
    /\ UNCHANGED <<pat_task, pat_files>>
    /\ UNCHANGED <<tbVars, taskVars, nameVars, workerVars>>

\* os.remove(patch_path) (line 781): FileNotFoundError when the file is gone.
PatcherRemove ==
    /\ \E p \in Patchers :
         /\ pat_pc[p] = "applied"
         /\ pat_pc' = [pat_pc EXCEPT ![p] =
                          IF \E f \in pat_files : f.path = PatcherPath(p)
                          THEN "returned" ELSE "raised"]
         /\ pat_files' = {f \in pat_files : f.path # PatcherPath(p)}
         /\ pat_touched' = pat_touched \cup {<<p, PatcherPath(p)>>}
    /\ UNCHANGED <<pat_task, pat_applied>>
    /\ UNCHANGED <<tbVars, taskVars, nameVars, workerVars>>

\* ----------------------------------------------------------- specifications

\* The testbed: construction, provisioning, distribution, teardown, re-runs.
Init ==
    /\ TestbedInitFrom(UNION {Inputs(n) : n \in 0..MaxInstances}, BOOLEAN)
    /\ TaskIdle
    /\ NamesIdle
    /\ WorkersIdle
    /\ PatchersIdle

Next == Construct \/ Enter \/ EnterStep \/ GetDistributedTasks \/ Exit \/ Rerun

Spec == Init /\ [][Next]_vars

\* The grouping alone, on longer input lists.
GroupingInit ==
    /\ TestbedInitFrom(UNION {Inputs(n) : n \in 0..MaxGroupedInstances}, {TRUE})
    /\ TaskIdle
    /\ NamesIdle
    /\ WorkersIdle
    /\ PatchersIdle

GroupingNext == Construct

SpecGrouping == GroupingInit /\ [][GroupingNext]_vars

\* One task context and the contexts that follow it for the same instance,
\* beside a testbed that stays as constructed.
TaskSpecInit ==
    /\ TestbedInitFrom({<<>>}, {TRUE})
    /\ TaskInit
    /\ NamesIdle
    /\ WorkersIdle
    /\ PatchersIdle

SpecTask == TaskSpecInit /\ [][TaskNext]_vars

\* The derivation of environment names, on repository and version strings
\* that may hold underscores.
NamingInit ==
    /\ TestbedInitFrom({<<>>}, {TRUE})
    /\ TaskIdle
    /\ NamesInit
    /\ WorkersIdle
    /\ PatchersIdle

NamingNext == DeriveNames

SpecNaming == NamingInit /\ [][NamingNext]_vars

\* Two task contexts of different groups run by two workers, under every
\* interleaving of their steps.
ParallelInit ==
    /\ TestbedInitFrom({<<>>}, {TRUE})
    /\ TaskIdle
    /\ NamesIdle
    /\ WorkersInit
    /\ PatchersIdle

ParallelNext == WorkerConstruct \/ WorkerEnter \/ WorkerCommand \/ WorkerExit

SpecParallel == ParallelInit /\ [][ParallelNext]_vars

\* Two concurrent apply_patch calls under one working root, under every
\* interleaving of their steps.
PatchingInit ==
    /\ TestbedInitFrom({<<>>}, {TRUE})
    /\ TaskIdle
    /\ NamesIdle
    /\ WorkersIdle
    /\ PatchersInit

PatchingNext == PatcherWrite \/ PatcherApply \/ PatcherRemove

SpecPatching == PatchingInit /\ [][PatchingNext]_vars

\* ------------------------------------------------------------------ claims

\* The instance's group survives _custom_restraints: its version is not None
\* and has an install specification for its repository.
Keeps(x) ==
    x.version # None /\ DictHas(DictGet(MAP_VERSION_TO_INSTALL, x.repo), x.version)

\* The places <<i, j, k>> of an instance in task_instances_grouped.
Places(x) ==
    {p \in UNION {UNION {{<<i, j, k>> : k \in 1..Len(task_instances_grouped[i][2][j][2])} :
                            j \in 1..Len(task_instances_grouped[i][2])} :
                     i \in 1..Len(task_instances_grouped)} :
        task_instances_grouped[p[1]][2][p[2]][2][p[3]] = x}

\* C1: after construction the groups partition the filtered input: an instance
\* whose version is not None and has an install specification is in exactly one
\* group, the one keyed by its repo and version; an instance that is dropped is in
\* no group; and the groups hold nothing but instances of the input.
C1_GroupsPartitionFilteredInput ==
    tb_pc = "constructed" =>
        /\ \A x \in Range(input) :
             IF Keeps(x)
             THEN /\ Cardinality(Places(x)) = 1
                  /\ \A p \in Places(x) :
                       /\ task_instances_grouped[p[1]][1] = x.repo
                       /\ task_instances_grouped[p[1]][2][p[2]][1] = x.version
             ELSE Places(x) = {}
        /\ \A i \in 1..Len(task_instances_grouped) :
             \A j \in 1..Len(task_instances_grouped[i][2]) :
                Range(task_instances_grouped[i][2][j][2]) \subseteq Range(input)

\* C1 witness: a constructed testbed with a group of two instances and a
\* dropped instance.
C1_Witness ==
    /\ tb_pc = "constructed"
    /\ \E x \in Range(input) : ~Keeps(x)
    /\ \E i \in 1..Len(task_instances_grouped) :
         \E j \in 1..Len(task_instances_grouped[i][2]) :
            Len(task_instances_grouped[i][2][j][2]) = 2

\* The environment names of the dropped groups of the input.
DroppedEnvNames == {EnvName(x.repo, x.version) : x \in {y \in Range(input) : ~Keeps(y)}}

ListedConda == IF tb.has_set_up_conda THEN tb.env_list ELSE {}
ListedOpam == IF tb.has_set_up_opam THEN tb.switch_list ELSE {}
ListedDocker == IF tb.has_container_list THEN tb.container_list ELSE {}

\* The environment names of the groups of a repository, given by its prefix.
EnvNamesOf(prefix) ==
    {EnvName(x.repo, x.version) : x \in {y \in Range(input) : ReplaceSlash(y.repo) = prefix}}

C4_PartialNeverSkipped ==
    tb_pc = "entered" =>
        /\ ListedConda \subseteq world.conda_built
        /\ ListedOpam \subseteq world.switches_built

\* The tokens of a sequence of log records.
Tokens(records) == {records[i].token : i \in 1..Len(records)}

\* How many records of a sequence carry one of the tokens.
CountTokens(records, tokens) ==
    Cardinality({i \in 1..Len(records) : records[i].token \in tokens})

\* The install specification of the context's instance.
Specifications == DictGet(DictGet(MAP_VERSION_TO_INSTALL, instance.repo), instance.version)

PreInstallCount ==
    IF "pre_install" \in DOMAIN Specifications THEN Len(Specifications.pre_install) ELSE 0

\* The last stage call was run_install_task and it ran the install command.
InstallCommandRan ==
    /\ last.stage = "install"
    /\ "install" \in DOMAIN Specifications
    /\ Len(last.ran) = PreInstallCount + 1

\* The outcome of the install command in the last stage call.
InstallOutcome == last.ran[Len(last.ran)][2]

\* C5, as stated: no lifecycle stage lets an exception escape: whether its
\* commands exit with zero, exit with non-zero or time out, the stage returns a
\* boolean.
C5_NoStageRaises ==
    (/\ last.stage \in {"reset", "install", "patch", "tests"}
     /\ \A i \in 1..Len(last.ran) : last.ran[i][2] \in {"exit0", "exitN", "timeout"})
    => last.ret \in {"True", "False"}

\* C6: when the install command runs past the timeout, run_install_task returns
\* False and appends INSTALL_TIMEOUT to the log, and not INSTALL_FAIL.
C6_InstallTimeout ==
    (InstallCommandRan /\ InstallOutcome = "timeout") =>
        /\ last.ret = "False"
        /\ "INSTALL_TIMEOUT" \in Tokens(last.appended)
        /\ "INSTALL_FAIL" \notin Tokens(last.appended)

\* C6 witness: run_install_task has run the install command after two
\* pre_install commands, and the install command timed out.
C6_Witness ==
    /\ InstallCommandRan
    /\ InstallOutcome = "timeout"
    /\ PreInstallCount = 2
    /\ last.ret = "False"

\* C7, as stated: an install command that ends within the timeout is classified
\* by its exit code: exit 0 appends INSTALL_PASS and returns True, a non-zero
\* exit appends INSTALL_FAIL and returns False.
C7_InstallClassifiedByExitCode ==
    InstallCommandRan =>
        /\ InstallOutcome = "exit0" =>
              last.ret = "True" /\ "INSTALL_PASS" \in Tokens(last.appended)
        /\ InstallOutcome = "exitN" =>
              last.ret = "False" /\ "INSTALL_FAIL" \in Tokens(last.appended)

\* C8, as stated: run_install_task runs the pre_install commands in their
\* declared order and, at the first that exits non-zero, appends INSTALL_FAIL,
\* returns False and runs no further command.
C8_PreInstallFailureReturnsFalse ==
    last.stage = "install" =>
        /\ \A i \in 1..Len(last.ran) :
              i <= PreInstallCount => last.ran[i][1] = Specifications.pre_install[i]
        /\ \A i \in 1..Len(last.ran) :
              (i <= PreInstallCount /\ last.ran[i][2] = "exitN") =>
                 /\ Len(last.ran) = i
                 /\ last.ret = "False"
                 /\ "INSTALL_FAIL" \in Tokens(last.appended)

TestTokens == {"TESTS_PASSED", "TESTS_FAILED", "TESTS_TIMEOUT", "TESTS_ERROR"}

\* C9: run_tests_task never raises and appends exactly one of the four test
\* tokens: exit 0 gives True and TESTS_PASSED, a non-zero exit True and
\* TESTS_FAILED, a timeout False and TESTS_TIMEOUT, any other exception False
\* and TESTS_ERROR.
C9_TestsClassified ==
    last.stage = "tests" =>
        LET o == last.ran[1][2]
            expected == CASE o = "exit0"   -> <<"True", "TESTS_PASSED">>
                          [] o = "exitN"   -> <<"True", "TESTS_FAILED">>
                          [] o = "timeout" -> <<"False", "TESTS_TIMEOUT">>
                          [] OTHER         -> <<"False", "TESTS_ERROR">>
        IN /\ Len(last.ran) = 1
           /\ last.ret = expected[1]
           /\ expected[2] \in Tokens(last.appended)
           /\ CountTokens(last.appended, TestTokens) = 1
   
\* C9 witness: run_tests_task has run a test command that exited non-zero, and
\* returned True.
C9_Witness ==
    /\ last.stage = "tests"
    /\ last.ran = <<<<"test_cmd", "exitN">>>>
    /\ last.ret = "True"
    /\ "TESTS_FAILED" \in Tokens(last.appended)

\* C10: apply_patch with a patch of None returns False, appends an
\* APPLY_PATCH_FAIL record, writes no temporary patch file, runs no patch
\* command and leaves the working tree as it was.
C10_NonePatch ==
    (last.stage = "patch" /\ last.patch = None) =>
        /\ last.ret = "False"
        /\ Tokens(last.appended) = {"APPLY_PATCH_FAIL"}
        /\ last.wrote = {}
        /\ last.files_after = last.files_before
        /\ last.ran = <<>>
        /\ last.tree_after = last.tree_before

\* C10 witness: apply_patch has been called with a patch of None on a tree
\* that holds an applied patch.
C10_Witness ==
    /\ last.stage = "patch"
    /\ last.patch = None
    /\ last.tree_before # {}
    /\ last.ret = "False"

\* C11, as stated: a temporary patch file never outlives the apply_patch call
\* that wrote it, whether the call applies or reverts and however the patch
\* command ends: no temporary patch file exists between stage calls.
C11_PatchFileNeverSurvives ==
    /\ patch_files = {}
    /\ last.stage = "patch" => last.wrote \cap last.files_after = {}

\* C12, as stated: on every way out of a task context (the with body ending, a
\* stage returning False, an exception in the body, or __enter__ failing after
\* its chdir) the working directory of the process is again the directory the
\* harness was in when the context was made.
C12_CwdRestoredOnEveryExit ==
    te_pc \in {"exited", "enter_failed"} => process_cwd = te_cwd

\* C13: a command that fails during provisioning raises out of __enter__ and
\* ends the run: the failed command is the last command run, for its own group
\* and for every later one, and the method has raised.
C13_FailureAbortsProvisioning ==
    \A i \in 1..Len(cmds) :
        ~cmds[i].ok => /\ i = Len(cmds)
                       /\ tb.raised
                       /\ tb_pc = "raised"

\* C13 witness: __enter__ has raised at a failed command that followed a
\* successful one, with iterations of its loops still to run.
C13_Witness ==
    /\ tb_pc = "raised"
    /\ todo # <<>>
    /\ Len(cmds) >= 2
    /\ cmds[1].ok
    /\ ~cmds[Len(cmds)].ok

\* C14, as stated: after __exit__ every temporary directory the harness made
\* itself (for conda, for opam and for the working root, each made only when
\* its path was not supplied) has been removed.
C14_TempDirsRemovedAfterExit ==
    tb_pc = "exited" => world.temp_dirs = {}

\* The containers this run's __enter__ has started.
StartedContainers ==
    {cmds[i].env : i \in {j \in 1..Len(cmds) : cmds[j].op = "docker_run" /\ cmds[j].ok}}

\* C15, as stated: after __exit__ every container the harness started during
\* provisioning has been stopped and removed, however many container groups the
\* run provisioned.
C15_ContainersRemovedAfterExit ==
    tb_pc = "exited" => StartedContainers \cap world.containers = {}

\* C16, as stated: two distinct (repository, version) groups never get the
\* same environment name nor the same checkout path.
C16_EnvNamesUnique ==
    \A i, j \in 1..Len(names) :
        name_groups[i] # name_groups[j] =>
            /\ names[i].env_name # names[j].env_name
            /\ names[i].repo_path # names[j].repo_path

\* The surviving groups, in the order of task_instances_grouped.
SurvivingGroups ==
    Flatten([i \in 1..Len(task_instances_grouped) |->
        [j \in 1..Len(task_instances_grouped[i][2]) |->
            [repo |-> task_instances_grouped[i][1],
             version |-> task_instances_grouped[i][2][j][1],
             instances |-> task_instances_grouped[i][2][j][2]]]])

\* get_distributed_tasks has returned a list of descriptors.
DistributedReturned == ~distributed.raised /\ distributed # NoTasks

\* C17: get_distributed_tasks returns one descriptor per surviving group, which
\* holds that group's instance list, the working root joined with the group's
\* environment name as testbed, and the environment name as venv, switch and
\* container; every kept instance of the input is in exactly one descriptor.
C17_OneDescriptorPerGroup ==
    DistributedReturned =>
        /\ Len(distributed.tasks) = Len(SurvivingGroups)
        /\ \A k \in 1..Len(distributed.tasks) :
             LET d == distributed.tasks[k]
                 g == SurvivingGroups[k]
                 env_name == EnvName(g.repo, g.version)
             IN /\ d.task_instances = g.instances
                /\ d.testbed = PathJoin(tb.testbed, env_name)
                /\ d.venv = env_name
                /\ d.switch = env_name
                /\ d.container = env_name
        /\ \A x \in Range(task_instances) :
             Cardinality({k \in 1..Len(distributed.tasks) :
                            x \in Range(distributed.tasks[k].task_instances)})
                = IF Keeps(x) THEN 1 ELSE 0

\* C17 witness: get_distributed_tasks has returned the descriptor of a group
\* of two instances.
C17_Witness ==
    /\ DistributedReturned
    /\ \E k \in 1..Len(distributed.tasks) : Len(distributed.tasks[k].task_instances) = 2

\* The environments of a back-end kind that exist.
EnvironmentsOf(kind) ==
    CASE kind = "opam"   -> world.switches
      [] kind = "docker" -> world.containers
      [] OTHER           -> world.conda_envs

\* C18: once __enter__ has returned, every surviving group has its
\* environment: the environment name exists in the back-end its version
\* selects and its checkout exists; so for every descriptor that
\* get_distributed_tasks returns.
C18_EveryGroupHasItsEnvironment ==
    tb_pc = "entered" =>
        /\ \A k \in 1..Len(SurvivingGroups) :
             LET g == SurvivingGroups[k]
                 env_name == EnvName(g.repo, g.version)
             IN /\ env_name \in EnvironmentsOf(Kind(g.version))
                /\ env_name \in world.checkouts
        /\ DistributedReturned =>
             \A k \in 1..Len(distributed.tasks) :
                LET d == distributed.tasks[k]
                IN /\ d.venv \in EnvironmentsOf(Kind(d.version))
                   /\ d.testbed \in {PathJoin(tb.testbed, c) : c \in world.checkouts}

\* C18 witness: __enter__ has returned for two groups of different back-end
\* kinds and get_distributed_tasks has returned their descriptors.
C18_Witness ==
    /\ tb_pc = "entered"
    /\ DistributedReturned
    /\ Len(distributed.tasks) = 2
    /\ Kind(distributed.tasks[1].version) # Kind(distributed.tasks[2].version)

\* C19, as stated: task contexts of different groups run by parallel workers,
\* processes or threads, share no mutable state: under every interleaving each
\* context's stage commands run in that context's own checkout, whatever the
\* other context's enter and exit do.
C19_WorkersRunInOwnCheckout ==
    \A i \in 1..Len(par_ran) : par_ran[i].cwd = WorkerTestbed(par_ran[i].worker)

\* a is a prefix of b
IsPrefix(a, b) == Len(a) <= Len(b) /\ SubSeq(b, 1, Len(a)) = a

\* C20, as stated: the log of an instance is append-only: no step (entering a
\* context, a stage, entering a new context for the same instance and mode)
\* removes or overwrites what the log holds; the log before a step is a prefix
\* of the log after it.
C20_LogAppendOnly == [][IsPrefix(log_file, log_file')]_vars

\* The documented terminal status tokens (the constants imported at lines 3-19).
TerminalTokens ==
    {"RESET_FAILED", "INSTALL_PASS", "INSTALL_FAIL", "INSTALL_TIMEOUT",
     "APPLY_PATCH_PASS", "APPLY_PATCH_FAIL",
     "TESTS_PASSED", "TESTS_FAILED", "TESTS_TIMEOUT", "TESTS_ERROR"}

\* C21, as stated: every stage call that returns, with True or with False,
\* appends exactly one terminal status token to the log.
C21_OneTerminalTokenPerStage ==
    (last.stage # "none" /\ last.ret \in {"True", "False"}) =>
        CountTokens(last.appended, TerminalTokens) = 1

\* The commands that bootstrap a back-end tool: download and install of conda
\* and of opam.
BootstrapOps == {"wget_conda", "install_conda", "wget_opam", "install_opam"}

\* How many times this run has run a command.
TimesRun(op) == Cardinality({i \in 1..Len(cmds) : cmds[i].op = op})

\* C22, as stated: within one provisioning run the download and the install of
\* conda, and of opam, run at most once, however many groups of that kind the
\* run provisions.
C22_BootstrapAtMostOnce ==
    \A op \in BootstrapOps : TimesRun(op) <= 1

\* The instances of the input that have the repo and version of x.
GroupOf(x) == {y \in Range(input) : y.repo = x.repo /\ y.version = x.version}

\* The position of an instance in the input list.
PositionIn(x) == CHOOSE i \in 1..Len(input) : input[i] = x

\* x comes before y in the stable sort by created_at descending: greater
\* created_at first, equal created_at in input order.
Before(x, y) ==
    \/ x.created_at > y.created_at
    \/ x.created_at = y.created_at /\ PositionIn(x) < PositionIn(y)

\* C23: the setup reference of each (repo, version) group is the group's first
\* instance in the stable descending sort by created_at, and each group lists
\* its instances in that order; so grouping and references are determined by
\* the input.
C23_SetupRefIsFirstInStableOrder ==
    tb_pc = "constructed" =>
        /\ \A x \in Range(input) :
             LET ref == DictGet(DictGet(setup_refs, x.repo), x.version)
             IN /\ ref \in GroupOf(x)
                /\ \A y \in GroupOf(x) \ {ref} : Before(ref, y)
        /\ \A k \in 1..Len(SurvivingGroups) :
             LET l == SurvivingGroups[k].instances
             IN \A a, b \in 1..Len(l) : a < b => Before(l[a], l[b])

\* C23 witness: a constructed testbed with a group of three instances, two of
\* equal created_at, whose setup reference is not the first of them in the input.
C23_Witness ==
    /\ tb_pc = "constructed"
    /\ \E x \in Range(input) :
         /\ Cardinality(GroupOf(x)) = 3
         /\ \E y, z \in GroupOf(x) : y # z /\ y.created_at = z.created_at
         /\ DictGet(DictGet(setup_refs, x.repo), x.version) # input[1]

\* The setup reference recorded for the group of instance x.
SetupRefOf(x) == DictGet(DictGet(setup_refs, x.repo), x.version)

C25_PatchPathsNeverShared ==
    \A t, u \in pat_touched : t[1] # u[1] => t[2] # u[2]

\* C26: when __enter__ has ended, normally or by an exception, no generated
\* requirements file or environment manifest remains in the working root.
C26_NoGeneratedFileAfterEnter ==
    tb_pc \in {"entered", "raised"} => world.gen_files = {}

\* The commands the last reset_task_env call ran after the removal of ignored
\* files, with their outcomes.
ResetRan ==
    IF last.ran # <<>> /\ last.ran[1][1] = "rm ignored" THEN Tail(last.ran) ELSE last.ran

\* reset_task_env ran its six git commands in the fixed order up to the first
\* that failed, and none after it.
ResetInOrderUntilFailure ==
    /\ Len(ResetRan) <= Len(ResetCmds)
    /\ \A i \in 1..Len(ResetRan) :
         /\ ResetRan[i][1] = ResetCmds[i]
         /\ i < Len(ResetRan) => ResetRan[i][2] = "exit0"

\* reset_task_env returned True exactly when all six commands ran and
\* succeeded, and else appended one RESET_FAILED record and returned False.
ResetVerdict ==
    IF Len(ResetRan) = Len(ResetCmds) /\ \A i \in 1..Len(ResetRan) : ResetRan[i][2] = "exit0"
    THEN last.ret = "True" /\ last.appended = <<>>
    ELSE /\ last.ret = "False"
         /\ Len(last.appended) = 1
         /\ last.appended[1].token = "RESET_FAILED"

\* The removal of ignored files did not end the stage: the first git command
\* ran after it.
ResetIgnoredRemovalBestEffort ==
    (last.ran # <<>> /\ last.ran[1][1] = "rm ignored") => ResetRan # <<>>

C28_DistributionNeverRaises ==
    tb_pc = "entered" => ~GetDistributedTasksResult(tb, task_instances_grouped).raised

\* C29: when path_conda, respectively path_opam, was supplied, provisioning runs
\* no download or install of that tool, and nothing but a failing command keeps
\* it from reaching the existence check of a group's environment name.
C29_SuppliedToolNeedsNoBootstrap ==
    /\ path_conda_given => TimesRun("wget_conda") = 0 /\ TimesRun("install_conda") = 0
    /\ path_opam_given => TimesRun("wget_opam") = 0 /\ TimesRun("install_opam") = 0
    /\ (tb_pc = "raised" /\ (path_conda_given \/ path_opam_given)) =>
          \E i \in 1..Len(cmds) : ~cmds[i].ok

====
